---- MODULE Spec2Model ----
(***************************************************************************)
(* A model of jaxns' NestedSampler (src/jaxns/nested_sampling.py): the     *)
(* constructor NestedSampler.__init__ and the run call                     *)
(* NestedSampler.__call__ = initial_state, the while_loop over body        *)
(* (= _one_step + termination test) and _finalise_results.                 *)
(*                                                                         *)
(* Representation of numbers.                                              *)
(*  - A point of the unit cube is a grid index U in 0..UMax, standing for  *)
(*    the uniform coordinate U/UMax.                                       *)
(*  - A log-likelihood is an integer code l standing for ln(ExpL(l)); the  *)
(*    order of codes is the order of log-likelihoods, code 0 is the        *)
(*    log-likelihood 0.0 (likelihood 1).                                   *)
(*  - The evidence tracker's log-space accumulators (X, dw, Z) are held by *)
(*    their exponentials, as integers in units of 1/Scale; the log value   *)
(*    -inf is the integer 0.  The order of the held values is the order of *)
(*    the log values.                                                      *)
(*  - An efficiency 1/n is held by its evaluation count n.                 *)
(*  - A value the user's log-likelihood may return is a record: a finite   *)
(*    code, nan, +inf or -inf (Finite, NaN, PosInf, NegInf below).  The    *)
(*    likelihood of the run returns finite codes only.                     *)
(***************************************************************************)
EXTENDS Integers, Sequences, FiniteSets, TLC

VARIABLES
    engine,       \* the arguments of NestedSampler.__init__ (None before it ran)
    args,         \* the arguments of NestedSampler.__call__
    state,        \* the NestedSamplerState threaded through the while_loop
    results,      \* what _finalise_results returned (None before it ran)
    pc,           \* "new": nothing constructed; "rejected": __init__ raised;
                  \* "constructed": __init__ returned; "aborted": __call__
                  \* raised in initial_state; "loop": in while_loop;
                  \* "returned": __call__ has returned; "raised": __call__
                  \* raised in _finalise_results
    used_keys,    \* the generator states consumed so far, in order of use
    sampler_call, \* the arguments of the latest sampler call (None before it)
    probe         \* the latest evaluation of the wrapped likelihood on a
                  \* value of the user's likelihood, or of the forward map
                  \* of a prior on a uniform input (None before it)

vars == <<engine, args, state, results, pc, used_keys, sampler_call, probe>>

(***************************************************************************)
(* Bounds of the model.                                                    *)
(***************************************************************************)
MaxLive == 2        \* num_live_points ranges over 1..MaxLive
MaxSamples == 3     \* max_samples ranges over 1..MaxSamples
UMax == 3           \* the unit cube is the grid 0..UMax
MaxEvals == 2       \* a sampler call reports 1 or MaxEvals likelihood evaluations

None == <<>>

Max(a, b) == IF a >= b THEN a ELSE b
Min(a, b) == IF a <= b THEN a ELSE b
Abs(a) == IF a >= 0 THEN a ELSE -a

RECURSIVE Pow(_, _)
Pow(b, e) == IF e = 0 THEN 1 ELSE b * Pow(b, e - 1)

\* An array of n entries is a function on 0..n-1.
Size(a) == Cardinality(DOMAIN a)
Full(n, v) == [k \in 0 .. n - 1 |-> v]

RECURSIVE SumTo(_, _)
SumTo(a, n) == IF n = 0 THEN 0 ELSE a[n - 1] + SumTo(a, n - 1)
Sum(a) == SumTo(a, Size(a))

(***************************************************************************)
(* jax.lax.dynamic_update_slice(operand, update, [start]): the update must *)
(* fit in the operand (a shape error otherwise) and the start index is     *)
(* clamped so that the whole update lands inside the operand.              *)
(***************************************************************************)
UpdateFits(operand, update) == Size(update) <= Size(operand)

ClampStart(operand, update, start) ==
    Max(0, Min(start, Size(operand) - Size(update)))

dynamic_update_slice(operand, update, start) ==
    LET s == ClampStart(operand, update, start)
    IN  [k \in DOMAIN operand |->
            IF s <= k /\ k < s + Size(update) THEN update[k - s] ELSE operand[k]]

\* x[None]: a scalar as a one-entry array
One(v) == Full(1, v)

(***************************************************************************)
(* The prior chain and the likelihood the engine is constructed with:      *)
(*   PriorChain().push(UniformPrior('theta', low, high))                   *)
(* UniformPrior wraps its constant hyperparameters in untracked DeltaPrior *)
(* nodes, so the chain has three named nodes.                              *)
(***************************************************************************)
PriorLow == 1       \* low of the UniformPrior
CellWidth == 2      \* (high - low) / UMax

PriorHigh == PriorLow + UMax * CellWidth

PriorNames == {"theta", "_theta_low", "_theta_high"}

\* prior.tracked of each node: UniformPrior(tracked=True), DeltaPrior(.., False)
tracked(name) == name = "theta"

\* DeltaPrior.__init__: super().__init__(name, 0, [], tracked)
DeltaU_ndims == 0

\* a faulty forward map: the value scaled by the uniform input
DeltaForwardScaled(U, kwargs, value) == IF U = <<>> THEN value ELSE U[1] * value

\* DeltaPrior.forward(U, **kwargs), U its slice of the uniform vector
DeltaForward(U, kwargs, value) == value

\* UniformPrior.forward: low + U * (high - low), with U = u / UMax
UniformForward(u, low, high) == low + (u * (high - low)) \div UMax

\* prior_chain(U): the name-keyed dict of constrained values; a Delta node
\* has no uniform dimension and no parent
prior_chain(u) ==
    LET low == DeltaForward(<<>>, <<>>, PriorLow)
        high == DeltaForward(<<>>, <<>>, PriorHigh)
    IN  [name \in PriorNames |->
            CASE name = "_theta_low" -> low
              [] name = "_theta_high" -> high
              [] OTHER -> UniformForward(u, low, high)]

\* the user's log-likelihood (a code): bounded and unimodal, a tent in theta
\* with its peak at the grid cell UMax - 1
PeakTheta == PriorLow + (UMax - 1) * CellWidth

user_loglikelihood(x) ==
    Max(0, (UMax - 1) - Abs(x["theta"] - PeakTheta) \div CellWidth)

\* the values a log-likelihood may return
Finite(v) == [kind |-> "finite", value |-> v]
NaN == [kind |-> "nan", value |-> 0]
PosInf == [kind |-> "+inf", value |-> 0]
NegInf == [kind |-> "-inf", value |-> 0]
isnan(log_L) == log_L.kind = "nan"

\* a faulty shape test: every shape is accepted
ShapeAcceptedAlways(shape) == TRUE

\* fixed_likelihood's shape test: log_L.shape != () raises ValueError
ShapeAccepted(shape) == shape = <<>>

\* fixed_likelihood's return: jnp.where(jnp.isnan(log_L), -jnp.inf, log_L)
where_isnan(log_L) == IF isnan(log_L) THEN NegInf ELSE log_L

\* NestedSampler.__init__.fixed_likelihood, of the scalar likelihood of the run
fixed_likelihood(x) == where_isnan(Finite(user_loglikelihood(x))).value

\* the likelihood a code stands for
ExpL(l) == l + 1

\* a faulty filter: every prior variable is kept
filter_prior_chain_all(d) == d

\* NestedSampler._filter_prior_chain
filter_prior_chain(d) == [name \in {n \in PriorNames : tracked(n)} |-> d[name]]

\* dict_multimap(f, d, e): f over the keys of the first dict
\* (instances are written out where they are used)

(***************************************************************************)
(* TrackedExpectation (param_tracking): the evidence tracker.  X, dw and Z *)
(* are held in units of 1/Scale; the expected shrinkage per elimination is *)
(* the rational N/(N+1) (standing for exp(-1/N)), so that every value the  *)
(* run computes is an integer.                                             *)
(***************************************************************************)
Scale(N, max_samples) == N * Pow(N + 1, max_samples)

TrackedInit(N, max_samples) ==
    [X |-> Scale(N, max_samples), dw |-> 0, Z |-> 0]

\* TrackedExpectation.update(dead_point, N, log_L_min)
TrackedUpdate(te, N, log_L_min) ==
    LET X1 == (te.X * N) \div (N + 1)
        dw1 == (te.X - X1) * ExpL(log_L_min)
    IN  [X |-> X1, dw |-> dw1, Z |-> te.Z + dw1]

\* TrackedExpectation.evidence_mean()
evidence_mean(te) == te.Z

\* a faulty constructor: the sampler name is not looked up
SamplerNameAvailableAlways(sampler_name) == TRUE

\* NestedSampler._available_samplers and the test of __init__
available_samplers == {"slice", "multi_ellipsoid"}
SamplerNameAvailable(sampler_name) == sampler_name \in available_samplers

(***************************************************************************)
(* jax.random: a generator state (key) is its path in the tree of splits.  *)
(***************************************************************************)
PRNGKey(seed) == <<seed>>

\* random.split(key, n)[j]
split(key, j) == Append(key, j)

\* the generator states of initial_state:
\*   key, init_key = random.split(key, 2)
\*   key, init_sampler_state_key = random.split(key, 2)
initial_keys(key0) ==
    [key1 |-> split(key0, 0),
     init_key |-> split(key0, 1),
     key2 |-> split(split(key0, 0), 0),
     init_sampler_state_key |-> split(split(key0, 0), 1)]

\* the generator states initial_state consumes, in order of use: key0 and
\* init_key by random.split, the num_live_points keys of the batch by
\* random.uniform, key1 by random.split, init_sampler_state_key by the
\* initialisation of the sampler state
initial_keys_used(key0, N) ==
    <<key0, initial_keys(key0).init_key>>
    \o [j \in 1 .. N |-> split(initial_keys(key0).init_key, j - 1)]
    \o <<initial_keys(key0).key1, initial_keys(key0).init_sampler_state_key>>

(***************************************************************************)
(* jnp.argmin: the first index holding the minimum.                        *)
(***************************************************************************)
RECURSIVE ArgMinFrom(_, _, _)
ArgMinFrom(a, k, best) ==
    IF k >= Size(a) THEN best
    ELSE ArgMinFrom(a, k + 1, IF a[k] < a[best] THEN k ELSE best)

\* a faulty argmin: of equal minima the last one
argmin_last(a) ==
    CHOOSE i \in DOMAIN a :
        /\ \A k \in DOMAIN a : a[i] <= a[k]
        /\ \A k \in DOMAIN a : a[k] = a[i] => k <= i

argmin(a) == ArgMinFrom(a, 1, 0)

\* jnp.argsort: ar[k] is the index of the k-th smallest entry, equal entries
\* in index order
argsort(a) ==
    LET rank(i) == Cardinality({j \in DOMAIN a :
                                   a[j] < a[i] \/ (a[j] = a[i] /\ j < i)})
    IN  [k \in DOMAIN a |-> CHOOSE i \in DOMAIN a : rank(i) = k]

(***************************************************************************)
(* The constrained likelihood samplers (likelihood_samplers): every result *)
(* a call may return.  The new point lies on the prior chain, its          *)
(* log-likelihood is strictly above the constraint, the generator state is *)
(* advanced and the sampler state is replaced.                             *)
(***************************************************************************)
init_sampler_state(key, live_points_U) == [calls |-> 0]

SamplerResults(key, log_L_constraint, sampler_state) ==
    { [key |-> split(key, 0),
       u_new |-> u,
       x_new |-> prior_chain(u),
       log_L_new |-> fixed_likelihood(prior_chain(u)),
       num_likelihood_evaluations |-> n,
       sampler_state |-> [calls |-> sampler_state.calls + 1]] :
      u \in {v \in 0 .. UMax : fixed_likelihood(prior_chain(v)) > log_L_constraint},
      n \in {1, MaxEvals} }

(***************************************************************************)
(* NestedSampler.initial_state.  U0[i] is the uniform draw of live point i.*)
(***************************************************************************)
\* a faulty allocation: dead_points is allocated whenever collect_samples is
\* set
AllocDeadPointsIfCollected(a) ==
    IF a.collect_samples
    THEN [name \in DOMAIN filter_prior_chain(prior_chain(0)) |->
             Full(a.max_samples, 0)]
    ELSE None

\* dead_points of the initial state: allocated if not only_marginalise and
\* collect_samples, None otherwise
AllocDeadPoints(a) ==
    IF ~a.only_marginalise /\ a.collect_samples
    THEN [name \in DOMAIN filter_prior_chain(prior_chain(0)) |->
             Full(a.max_samples, 0)]
    ELSE None

\* a faulty count: the evaluations of the initial batch are left out
InitialEvaluationsNone(N) == 0

\* num_likelihood_evaluations=num_live_points
InitialEvaluations(N) == N

initial_state(key0, a, U0) ==
    LET N == a.num_live_points
        te == TrackedInit(N, a.max_samples)
        constrained == [i \in 0 .. N - 1 |-> prior_chain(U0[i])]
    IN  [key |-> initial_keys(key0).key2,
         done |-> FALSE,
         i |-> 0,
         num_likelihood_evaluations |-> InitialEvaluations(N),
         live_points |-> [name \in PriorNames |->
                             [i \in 0 .. N - 1 |-> constrained[i][name]]],
         live_points_U |-> U0,
         log_L_live |-> [i \in 0 .. N - 1 |-> fixed_likelihood(constrained[i])],
         dead_points |-> AllocDeadPoints(a),
         log_L_dead |-> IF a.only_marginalise THEN None
                        ELSE Full(a.max_samples, 0),
         sampler_efficiency |-> IF a.only_marginalise THEN None
                                ELSE Full(a.max_samples, 1),
         num_dead |-> 0,
         status |-> 0,
         sampler_state |-> init_sampler_state(
                              initial_keys(key0).init_sampler_state_key, U0),
         tracked_expectations_state |-> te,
         log_X |-> IF a.only_marginalise THEN None ELSE Full(a.max_samples, 0),
         log_w |-> IF a.only_marginalise THEN None ELSE Full(a.max_samples, 0)]

(***************************************************************************)
(* NestedSampler._one_step, given the result sr of the sampler call.       *)
(***************************************************************************)
\* i_min = jnp.argmin(state.log_L_live)
i_min_of(st) == argmin(st.log_L_live)

\* a faulty write index: every step writes the first entry of the buffers
DeadIndexFirst(st) == 0

\* the index the step's buffer writes start at: [state.num_dead]
DeadIndex(st) == st.num_dead

\* log_L_min = state.log_L_live[i_min]
log_L_min_of(st) == st.log_L_live[i_min_of(st)]

\* a buffer of the step after its write of one entry at [state.num_dead]
\* (if not only_marginalise: ...; None otherwise)
Recorded(st, a, buffer, entry) ==
    IF a.only_marginalise THEN buffer
    ELSE dynamic_update_slice(buffer, One(entry), DeadIndex(st))

\* dead_points after the step (if collect_samples: ...): dict_multimap over the
\* names of dead_points, the tracked ones
RecordedPoints(st, a) ==
    IF ~a.only_marginalise /\ a.collect_samples
    THEN [name \in DOMAIN st.dead_points |->
             dynamic_update_slice(st.dead_points[name],
                                  One(st.live_points[name][i_min_of(st)]),
                                  DeadIndex(st))]
    ELSE st.dead_points

\* a faulty slot: the replacement always lands in slot 0
LiveIndexFirst(i_min) == 0

\* the slot of the live set the replacement is written to: [i_min]
LiveIndex(i_min) == i_min

\* a faulty step: the updated tracker state is dropped
StoredTrackedStale(st, te) == st.tracked_expectations_state

\* the tracker state the step stores: tracked_expectations.state
StoredTracked(st, te) == te

\* tracked_expectations.update(dead_point, N, log_L_min)
StepTracked(st) ==
    TrackedUpdate(st.tracked_expectations_state, Size(st.log_L_live), log_L_min_of(st))

\* a faulty threshold: the sampler is left unconstrained (-inf)
ConstraintNone(st) == 0

\* log_L_constraint=log_L_min
Constraint(st) == log_L_min_of(st)

\* a faulty call: the sampler is handed the volume of before the update
sampler_call_args_before(st) ==
    [key |-> st.key,
     log_L_constraint |-> Constraint(st),
     log_X |-> st.tracked_expectations_state.X]

\* the arguments of the sampler call taken from the generator, the live set
\* and the tracker: state.key, log_L_constraint=log_L_min,
\* log_X=tracked_expectations.state.X.log_value
sampler_call_args(st) ==
    [key |-> st.key,
     log_L_constraint |-> Constraint(st),
     log_X |-> StepTracked(st).X]

\* a faulty step: the generator state the sampler was given is kept
StoredKeyStale(st, sr) == st.key

\* key=sampler_results.key
StoredKey(st, sr) == sr.key

\* a faulty count: evaluations are accumulated only with the bookkeeping on
StepEvaluationsRecorded(st, a, sr) ==
    IF a.only_marginalise THEN st.num_likelihood_evaluations
    ELSE st.num_likelihood_evaluations + sr.num_likelihood_evaluations

\* state.num_likelihood_evaluations + sampler_results.num_likelihood_evaluations
StepEvaluations(st, a, sr) ==
    st.num_likelihood_evaluations + sr.num_likelihood_evaluations

\* a faulty count: num_dead advances only when the dead point is recorded
NextNumDeadRecorded(st, a) ==
    IF a.only_marginalise THEN st.num_dead ELSE st.num_dead + 1

\* num_dead=state.num_dead + 1
NextNumDead(st, a) == st.num_dead + 1

\* a faulty replacement: the eliminated log-likelihood is written back
NewLogLEliminated(st, sr) == log_L_min_of(st)

\* the log-likelihood written to the live set: sampler_results.log_L_new
NewLogL(st, sr) == sr.log_L_new

one_step(st, a, sr) ==
    [key |-> StoredKey(st, sr),
     done |-> st.done,
     i |-> st.i,
     num_likelihood_evaluations |-> StepEvaluations(st, a, sr),
     live_points |-> [name \in DOMAIN st.live_points |->
                         dynamic_update_slice(st.live_points[name], One(sr.x_new[name]),
                                              LiveIndex(i_min_of(st)))],
     live_points_U |-> dynamic_update_slice(st.live_points_U, One(sr.u_new),
                                            LiveIndex(i_min_of(st))),
     log_L_live |-> dynamic_update_slice(st.log_L_live, One(NewLogL(st, sr)),
                                         LiveIndex(i_min_of(st))),
     dead_points |-> RecordedPoints(st, a),
     log_L_dead |-> Recorded(st, a, st.log_L_dead, log_L_min_of(st)),
     sampler_efficiency |-> Recorded(st, a, st.sampler_efficiency,
                                     sr.num_likelihood_evaluations),
     num_dead |-> NextNumDead(st, a),
     status |-> st.status,
     sampler_state |-> sr.sampler_state,
     tracked_expectations_state |-> StoredTracked(st, StepTracked(st)),
     log_X |-> Recorded(st, a, st.log_X, StepTracked(st).X),
     log_w |-> Recorded(st, a, st.log_w, StepTracked(st).dw)]

(***************************************************************************)
(* NestedSampler.__call__.body: one step, then the termination test.       *)
(*   logZ_live < log(termination_frac) + logZ                              *)
(* is  mean(L_live) * X < termination_frac * Z, cleared of its fractions.  *)
(***************************************************************************)
SumExpL(log_L) == Sum([k \in DOMAIN log_L |-> ExpL(log_L[k])])

Converged(st, a) ==
    LET te == st.tracked_expectations_state
    IN  SumExpL(st.log_L_live) * te.X * a.termination_frac[2]
          < a.termination_frac[1] * evidence_mean(te) * Size(st.log_L_live)

\* a faulty cap: the run is cut one step short of max_samples
CapReachedEarly(st, a) == st.i + 2 >= a.max_samples

\* a faulty cap: the count is compared before the step is counted
CapReachedLate(st, a) == st.i >= a.max_samples

\* (state.i + 1) >= max_samples
CapReached(st, a) == st.i + 1 >= a.max_samples

\* a faulty test: the state the step started from is tested
TestedStateBefore(st, s1) == st

\* the state the termination test reads: the one _one_step returned
TestedState(st, s1) == s1

\* (s1, the state _one_step returned, is bound to its value once)
body(st, a, sr) ==
    CHOOSE s2 \in { [s1 EXCEPT !.done = Converged(TestedState(st, s1), a)
                                          \/ CapReached(s1, a),
                               !.i = s1.i + 1] : s1 \in {one_step(st, a, sr)} } : TRUE

(***************************************************************************)
(* TrackedExpectation.update_from_live_points: the remaining volume X is   *)
(* shared equally among the live points, taken in ascending order of       *)
(* log-likelihood; entry j of the returned arrays belongs to the j-th.     *)
(***************************************************************************)
update_from_live_points(te, log_L_live) ==
    LET N == Size(log_L_live)
        ar == argsort(log_L_live)
        share == te.X \div N
        log_w == [j \in 0 .. N - 1 |-> share * ExpL(log_L_live[ar[j]])]
    IN  [state |-> [X |-> 0, dw |-> log_w[N - 1], Z |-> te.Z + Sum(log_w)],
         log_L |-> [j \in 0 .. N - 1 |-> log_L_live[ar[j]]],
         log_X |-> [j \in 0 .. N - 1 |-> te.X - (j + 1) * share],
         log_w |-> log_w]

(***************************************************************************)
(* NestedSampler._finalise_results.                                        *)
(***************************************************************************)
\* the index the appended live entries start at: [state.num_dead]
AppendIndex(st) == st.num_dead

\* every dynamic_update_slice of result assembly writes num_live_points
\* entries into a buffer of max_samples entries
FinaliseRaises(st, a) ==
    ~a.only_marginalise
    /\ ~UpdateFits(Full(a.max_samples, 0), Full(Size(st.log_L_live), 0))

\* a faulty test: 'samples' is kept whenever collect_samples is set
SamplesKeptIfCollected(a) == a.collect_samples

\* if collect_samples and not only_marginalise: collect.append('samples')
SamplesKept(a) == a.collect_samples /\ ~a.only_marginalise

finalise_results(st, a) ==
    LET N == Size(st.log_L_live)
        live == update_from_live_points(st.tracked_expectations_state, st.log_L_live)
        te == live.state
        \* n_per_sample: jnp.inf is held as 0
        n_per_sample ==
            dynamic_update_slice(
                [k \in 0 .. a.max_samples - 1 |-> IF k < st.num_dead THEN N ELSE 0],
                [j \in 0 .. N - 1 |-> N - j], AppendIndex(st))
        log_w == dynamic_update_slice(st.log_w, live.log_w, AppendIndex(st))
        data ==
            [logZ |-> evidence_mean(te),
             num_likelihood_evaluations |-> st.num_likelihood_evaluations,
             \* efficiency: numerator and denominator
             efficiency |-> <<st.num_dead + N, st.num_likelihood_evaluations>>,
             marginalised |-> None,
             marginalised_uncert |-> None,
             n_per_sample |-> IF a.only_marginalise THEN None ELSE n_per_sample,
             \* log_p = log_w - logsumexp(log_w): the weights and their sum
             log_p |-> IF a.only_marginalise THEN None
                       ELSE [w |-> log_w, total |-> Sum(log_w)],
             log_X |-> IF a.only_marginalise THEN None
                       ELSE dynamic_update_slice(st.log_X, live.log_X, AppendIndex(st)),
             log_L_samples |-> IF a.only_marginalise THEN None
                               ELSE dynamic_update_slice(st.log_L_dead, live.log_L,
                                                         AppendIndex(st)),
             num_samples |-> st.num_dead + N,
             sampler_efficiency |-> IF a.only_marginalise THEN None
                                    ELSE dynamic_update_slice(st.sampler_efficiency,
                                                              Full(N, 1), AppendIndex(st))]
        ar == argsort(st.log_L_live)
        samples ==
            [name \in DOMAIN st.dead_points |->
                dynamic_update_slice(st.dead_points[name],
                                     [j \in 0 .. N - 1 |-> st.live_points[name][ar[j]]],
                                     AppendIndex(st))]
    IN  IF SamplesKept(a)
        THEN [fields |-> data, samples |-> samples, has_samples |-> TRUE]
        ELSE [fields |-> data, samples |-> None, has_samples |-> FALSE]

(***************************************************************************)
(* The run: NestedSampler.__call__.                                        *)
(***************************************************************************)
TerminationFracs == {<<1, 100>>, <<1, 1>>}   \* numerator, denominator

Args == [num_live_points : 1 .. MaxLive,
         max_samples : 1 .. MaxSamples,
         collect_samples : BOOLEAN,
         termination_frac : TerminationFracs,
         only_marginalise : BOOLEAN]

(***************************************************************************)
(* The forward maps of prior_transforms/common.py on inputs of their own.  *)
(* A uniform input of UniformPrior is a fraction <<n, d>> (n/d, d > 0), and *)
(* so is its output.  The floats of Gumbel and CategoricalPrior are held   *)
(* on an ordinal scale: a finite value by an integer that keeps the order, *)
(* the singular values as -inf and +inf.                                   *)
(***************************************************************************)
FracLeq(a, b) == a[1] * b[2] <= b[1] * a[2]
FracEq(a, b) == a[1] * b[2] = b[1] * a[2]

\* a faulty forward map: low + U * high
uniform_forward_unshifted(U, low, high) == <<low * U[2] + U[1] * high, U[2]>>

\* UniformPrior.forward: low + jnp.reshape(U, self.to_shape) * (high - low)
uniform_forward(U, low, high) == <<low * U[2] + U[1] * (high - low), U[2]>>

\* a uniform coordinate u / UMax in units of jnp.finfo(U.dtype).eps (half a
\* grid cell stands for eps), and 1.0 in these units
InEps(u) == 2 * u
OneInEps == InEps(UMax)

\* a faulty clamp: the uniform input is used as it is
maximum_eps_none(x) == x

\* jnp.maximum(U, jnp.finfo(U.dtype).eps)
maximum_eps(x) == Max(x, 1)

\* -jnp.log(x) of x in [0, 1]: +inf at 0, 0.0 at 1, decreasing
neg_log_unit(x) == IF x = 0 THEN PosInf ELSE Finite(OneInEps - x)

\* -jnp.log(y) of y >= 0: +inf at 0, -inf at +inf, decreasing
neg_log(y) ==
    CASE y.kind = "+inf" -> NegInf
      [] y.kind = "finite" /\ y.value = 0 -> PosInf
      [] OTHER -> Finite(OneInEps - y.value)

\* Gumbel.forward of one component:
\*   -jnp.log(-jnp.log(jnp.maximum(U, jnp.finfo(U.dtype).eps)))
gumbel_forward(u) == neg_log(neg_log_unit(maximum_eps(InEps(u))))

\* logits + gumbel of one component (the logit is finite)
add_logit(logit, g) == IF g.kind = "finite" THEN Finite(logit + g.value) ELSE g

\* the order of the floats without NaN
FloatLess(a, b) ==
    CASE a.kind = "-inf" -> b.kind # "-inf"
      [] a.kind = "+inf" -> FALSE
      [] OTHER -> b.kind = "+inf" \/ (b.kind = "finite" /\ a.value < b.value)

\* jnp.argmax: the first index holding the maximum
argmax_float(a) ==
    CHOOSE i \in DOMAIN a :
        /\ \A k \in DOMAIN a : ~FloatLess(a[i], a[k])
        /\ \A k \in DOMAIN a : k < i => FloatLess(a[k], a[i])

\* CategoricalPrior.forward: jnp.argmax(logits + gumbel)[None]
categorical_forward(U, gumbel, logits) ==
    One(argmax_float([k \in DOMAIN logits |-> add_logit(logits[k], gumbel[k])]))

\* the arguments of __init__: the sampler name and the shape of the value
\* the user's log-likelihood returns (() is a scalar)
Engines == [sampler_name : available_samplers \cup {"unknown"},
            log_L_shape : {<<>>, <<1>>}]

\* the values the user's log-likelihood may return
UserValues == {Finite(v) : v \in 0 .. UMax} \cup {NaN, PosInf, NegInf}

\* an engine constructed with the slice sampler and a scalar likelihood
Init ==
    /\ pc = "constructed"
    /\ engine = [sampler_name |-> "slice", log_L_shape |-> <<>>]
    /\ args = None
    /\ state = None
    /\ results = None
    /\ used_keys = <<>>
    /\ sampler_call = None
    /\ probe = None

\* nothing constructed yet
InitNew ==
    /\ pc = "new"
    /\ engine = None
    /\ args = None
    /\ state = None
    /\ results = None
    /\ used_keys = <<>>
    /\ sampler_call = None
    /\ probe = None

\* NestedSampler.__init__: the sampler name is looked up; the likelihood is
\* wrapped, not called
Construct ==
    /\ pc = "new"
    /\ \E e \in Engines :
          /\ engine' = e
          /\ pc' = IF SamplerNameAvailable(e.sampler_name)
                   THEN "constructed" ELSE "rejected"
    /\ UNCHANGED <<args, state, results, used_keys, sampler_call, probe>>

\* a call of the wrapped likelihood (engine.loglikelihood) whose user
\* likelihood returns log_L
Evaluate ==
    /\ pc = "constructed"
    /\ \E log_L \in UserValues :
          probe' = [log_L |-> log_L,
                    raised |-> ~ShapeAccepted(engine.log_L_shape),
                    out |-> where_isnan(log_L)]
    /\ UNCHANGED <<engine, args, state, results, pc, used_keys, sampler_call>>

\* __call__ up to the while_loop: initial_state, which calls the wrapped
\* likelihood on the initial batch and then branches on the sampler name
Call ==
    /\ pc = "constructed"
    /\ \E a \in Args :
         \E U0 \in [0 .. a.num_live_points - 1 -> 0 .. UMax] :
            /\ args' = a
            /\ IF ShapeAccepted(engine.log_L_shape)
                  /\ engine.sampler_name \in {"slice", "multi_ellipsoid"}
               THEN /\ state' = initial_state(PRNGKey(0), a, U0)
                    /\ used_keys' = initial_keys_used(PRNGKey(0), a.num_live_points)
                    /\ pc' = "loop"
               ELSE /\ pc' = "aborted"
                    /\ UNCHANGED <<state, used_keys>>
    /\ UNCHANGED <<engine, results, sampler_call, probe>>

\* one iteration of while_loop(lambda state: ~state.done, body, state)
Body ==
    /\ pc = "loop"
    /\ ~state.done
    /\ \E sr \in SamplerResults(state.key, Constraint(state), state.sampler_state) :
          state' = body(state, args, sr)
    /\ sampler_call' = sampler_call_args(state)
    /\ used_keys' = Append(used_keys, state.key)
    /\ UNCHANGED <<engine, args, results, pc, probe>>

\* the loop has ended: _finalise_results and return
Finalise ==
    /\ pc = "loop"
    /\ state.done
    /\ IF FinaliseRaises(state, args)
       THEN pc' = "raised" /\ UNCHANGED results
       ELSE pc' = "returned" /\ results' = finalise_results(state, args)
    /\ UNCHANGED <<engine, args, state, used_keys, sampler_call, probe>>

Next == Call \/ Body \/ Finalise

Spec == Init /\ [][Next]_vars

\* the scheduling of the run: while_loop runs body as long as ~state.done
FairSpec == Spec /\ WF_vars(Body)

\* construction, calls of the wrapped likelihood and the set-up of a run
SetupNext == Construct \/ Evaluate \/ Call

SetupSpec == InitNew /\ [][SetupNext]_vars

\* slices of the uniform vector, of no or one dimension
USlices == {<<>>} \cup {<<u>> : u \in 0 .. UMax}

\* keyword contexts: the outputs of any parents, by name
Contexts == UNION {[S -> 0 .. 1] : S \in SUBSET {"low", "high"}}

\* the fractions n/d of [0, 1] with d <= UMax
UnitFractions == {<<n, d>> \in (0 .. UMax) \X (1 .. UMax) : n <= d}

\* the bounds a UniformPrior is given
UniformBounds == {0, PriorLow, PriorHigh, 10}

\* DeltaPrior(name, value).forward(U, **kwargs)
ForwardDelta ==
    /\ pc = "new"
    /\ \E U \in USlices, kwargs \in Contexts, value \in 0 .. UMax :
          probe' = [prior |-> "DeltaPrior",
                    U_ndims |-> DeltaU_ndims,
                    U |-> U,
                    kwargs |-> kwargs,
                    value |-> value,
                    out |-> DeltaForward(U, kwargs, value)]
    /\ UNCHANGED <<engine, args, state, results, pc, used_keys, sampler_call>>

\* UniformPrior(name, low, high).forward(U, low, high)
ForwardUniform ==
    /\ pc = "new"
    /\ \E U \in UnitFractions, low \in UniformBounds, high \in UniformBounds :
          probe' = [prior |-> "UniformPrior",
                    U |-> U,
                    low |-> low,
                    high |-> high,
                    out |-> uniform_forward(U, low, high)]
    /\ UNCHANGED <<engine, args, state, results, pc, used_keys, sampler_call>>

\* CategoricalPrior(name, logits) of K logits: its Gumbel parent maps the K
\* uniform coordinates U, and the node takes the argmax
ForwardCategorical ==
    /\ pc = "new"
    /\ \E K \in {1, 2} :
          \E U \in [0 .. K - 1 -> 0 .. UMax], logits \in [0 .. K - 1 -> 0 .. 1] :
             probe' = [prior |-> "CategoricalPrior",
                       U |-> U,
                       logits |-> logits,
                       gumbel |-> [k \in 0 .. K - 1 |-> gumbel_forward(U[k])],
                       out |-> categorical_forward(
                                   U, [k \in 0 .. K - 1 |-> gumbel_forward(U[k])],
                                   logits)]
    /\ UNCHANGED <<engine, args, state, results, pc, used_keys, sampler_call>>

\* the forward maps of the priors, each on inputs of its own
PriorNext == ForwardDelta \/ ForwardUniform \/ ForwardCategorical

PriorSpec == InitNew /\ [][PriorNext]_vars

(***************************************************************************)
(* Properties.                                                             *)
(***************************************************************************)
Started == pc \in {"loop", "returned", "raised"}
Bookkeeping == Started /\ ~args.only_marginalise
Collecting == Bookkeeping /\ args.collect_samples

\* the step from the current state to the next one is an execution of body
StepTaken == pc = "loop" /\ state' # state

\* the sampler cannot return: no point of the grid lies above the constraint
SamplerStalled ==
    /\ pc = "loop"
    /\ ~state.done
    /\ SamplerResults(state.key, log_L_min_of(state), state.sampler_state) = {}

\* C1: the log-likelihoods recorded for the dead points are non-decreasing in
\* elimination order: log_L_dead[k] <= log_L_dead[k+1] for 0 <= k < num_dead-1
\* (the sampler returning a point strictly above its constraint).
C1_DeadNonDecreasing ==
    Bookkeeping =>
        \A k \in 0 .. state.num_dead - 2 :
            state.log_L_dead[k] <= state.log_L_dead[k + 1]

C1_Witness ==
    /\ Bookkeeping
    /\ state.done
    /\ state.num_dead = 3
    /\ state.log_L_dead[0] = state.log_L_dead[1]
    /\ state.log_L_dead[1] < state.log_L_dead[2]

\* the three parallel arrays of the live set have N slots
LiveSetSize ==
    Started =>
        /\ DOMAIN state.live_points_U = 0 .. args.num_live_points - 1
        /\ DOMAIN state.log_L_live = 0 .. args.num_live_points - 1
        /\ \A name \in PriorNames :
              DOMAIN state.live_points[name] = 0 .. args.num_live_points - 1

\* a step writes one point into one slot holding the minimum, and no other slot
OneSlotOverwritten ==
    StepTaken =>
        \E j \in DOMAIN state.log_L_live :
            /\ \A k \in DOMAIN state.log_L_live : state.log_L_live[j] <= state.log_L_live[k]
            /\ state'.live_points_U[j] # state.live_points_U[j]
            /\ state'.log_L_live[j] # state.log_L_live[j]
            /\ state'.live_points["theta"][j] # state.live_points["theta"][j]
            /\ \A name \in PriorNames :
                  state'.live_points[name][j] = prior_chain(state'.live_points_U[j])[name]
            /\ state'.log_L_live[j] = fixed_likelihood(prior_chain(state'.live_points_U[j]))
            /\ \A k \in DOMAIN state.log_L_live \ {j} :
                  /\ state'.live_points_U[k] = state.live_points_U[k]
                  /\ state'.log_L_live[k] = state.log_L_live[k]
                  /\ \A name \in PriorNames :
                        state'.live_points[name][k] = state.live_points[name][k]

\* C2: the live set has exactly N entries in each of its three parallel arrays
\* after initialisation and after every step, and a step overwrites the slot
\* i_min of the eliminated point (the first minimum) in all three arrays, with
\* one point, and leaves every other slot as it was.
C2_LiveSetFrame == [](LiveSetSize) /\ [][OneSlotOverwritten]_vars

C2_Witness ==
    /\ Started
    /\ args.num_live_points = 2
    /\ state.num_dead >= 2
    /\ state.log_L_live[0] > state.log_L_live[1]

\* C3: the remaining volume recorded in log_X is strictly decreasing from one
\* step to the next: log_X[k+1] < log_X[k] for 0 <= k < num_dead-1.
C3_LogXDecreasing ==
    Bookkeeping =>
        \A k \in 0 .. state.num_dead - 2 : state.log_X[k + 1] < state.log_X[k]

C3_Witness ==
    /\ Bookkeeping
    /\ state.num_dead = 3
    /\ state.log_X[2] > 0

\* the termination predicate on the current state: the live set's residual
\* evidence, mean(L_live) * X, is below termination_frac times the evidence Z
ResidualBelowFraction ==
    LET te == state.tracked_expectations_state
        N == args.num_live_points
        sumL == Sum([k \in 0 .. N - 1 |-> ExpL(state.log_L_live[k])])
    IN  args.termination_frac[2] * sumL * te.X
          < args.termination_frac[1] * N * te.Z

\* before the first step the run is not halted; after a step it is halted iff
\* the predicate holds of the state the step left or the cap is reached
HaltDecision ==
    Started =>
        IF state.i = 0 THEN ~state.done
        ELSE state.done <=> (ResidualBelowFraction \/ state.i >= args.max_samples)

\* a step starts from a state not halted and counts once
StepCounted ==
    StepTaken => /\ ~state.done
                 /\ state'.i = state.i + 1
                 /\ state'.num_dead = state.num_dead + 1

\* the state of a halted run no longer changes
NoStepOnceHalted == (Started /\ state.done) => state' = state

\* C5: the halt decision is taken once per step, on the state the step leaves
\* (evidence updated, replacement installed): after a step the run is halted
\* iff the residual evidence is below termination_frac times the evidence or
\* the number of completed steps has reached max_samples; no step is executed
\* once halted.
C5_HaltDecision == [](HaltDecision) /\ [][StepCounted /\ NoStepOnceHalted]_vars

C5_Witness ==
    /\ Started
    /\ state.done
    /\ state.i = 2
    /\ state.i < args.max_samples
    /\ ResidualBelowFraction

\* C6: a run halted by the max_samples cap, the predicate not having fired,
\* has status 1 (MAX_SAMPLES_REACHED); a run halted by the predicate has
\* status 0 (CONVERGED).
C6_StatusReported ==
    (Started /\ state.done) =>
        IF ResidualBelowFraction THEN state.status = 0 ELSE state.status = 1

\* a halted run has taken 1..max_samples steps, a running one fewer than max_samples
StepBounds ==
    Started =>
        /\ state.done => (1 <= state.i /\ state.i <= args.max_samples)
        /\ ~state.done => state.i < args.max_samples

\* while_loop ends only on state.done
LoopLeftWhenDone == (pc = "loop" /\ pc' # "loop") => state.done

\* C7: a run with max_samples >= 1 halts after at least one and at most
\* max_samples steps unless a sampler call never returns, and the loop is left
\* only when the halt decision was taken.
C7_Halts ==
    /\ [](StepBounds)
    /\ [][LoopLeftWhenDone]_vars
    /\ Started ~> (Started /\ (state.done \/ SamplerStalled))

C7_Witness ==
    /\ pc = "returned"
    /\ args.max_samples = 3
    /\ state.i = args.max_samples
    /\ ~ResidualBelowFraction

\* C8: for every num_live_points >= 1 and max_samples >= 1 every write into the
\* buffers of capacity max_samples, in a step and in result assembly, lies
\* inside [0, max_samples), and the run never ends with a shape error.
C8_WritesInCapacity ==
    /\ (pc = "loop" /\ ~state.done /\ ~args.only_marginalise)
          => state.num_dead < args.max_samples
    /\ pc # "raised"
    /\ (pc = "returned" /\ ~args.only_marginalise)
          => state.num_dead + args.num_live_points <= args.max_samples

\* C9: with sample collection enabled the result holds the dead points in
\* elimination order in entries 0..num_dead-1 (with their weight, volume and
\* log-likelihood), the N live points in entries num_dead..num_dead+N-1, and
\* num_samples = num_dead + N.
C9_CombinedSamples ==
    (pc = "returned" /\ results.has_samples) =>
        LET nd == state.num_dead
            N == args.num_live_points
            ar == argsort(state.log_L_live)
            smp == results.samples["theta"]
        IN  /\ results.fields.num_samples = nd + N
            /\ \A k \in 0 .. nd - 1 :
                  /\ smp[k] = state.dead_points["theta"][k]
                  /\ results.fields.log_L_samples[k] = state.log_L_dead[k]
                  /\ results.fields.log_X[k] = state.log_X[k]
                  /\ results.fields.log_p.w[k] = state.log_w[k]
            /\ \A j \in 0 .. N - 1 :
                  /\ nd + j \in DOMAIN smp
                  /\ smp[nd + j] = state.live_points["theta"][ar[j]]

\* the slot a step replaces, and the point it records as dead, is the first
\* slot holding the minimum log-likelihood
MinEliminated ==
    StepTaken =>
        \E j \in DOMAIN state.log_L_live :
            /\ \A k \in DOMAIN state.log_L_live : state.log_L_live[j] <= state.log_L_live[k]
            /\ \A k \in 0 .. j - 1 : state.log_L_live[k] > state.log_L_live[j]
            /\ state'.log_L_live[j] # state.log_L_live[j]
            /\ Bookkeeping =>
                  state'.log_L_dead[state.num_dead] = state.log_L_live[j]
            /\ Collecting =>
                  state'.dead_points["theta"][state.num_dead]
                      = state.live_points["theta"][j]

\* C10: the point a step eliminates has the minimum log-likelihood of the live
\* set and, of the live points sharing the minimum, the lowest index.
C10_MinEliminated == [][MinEliminated]_vars

\* a tie was broken: slot 0 was replaced, slot 1 still holds the dead value
C10_Witness ==
    /\ Bookkeeping
    /\ args.num_live_points = 2
    /\ state.num_dead = 1
    /\ state.log_L_live[1] = state.log_L_dead[0]
    /\ state.log_L_live[0] > state.log_L_live[1]

\* no generator state was consumed by two uses
KeysUsedOnce ==
    \A j \in DOMAIN used_keys :
        \A k \in DOMAIN used_keys : j # k => used_keys[j] # used_keys[k]

\* the generator state a run holds has not been consumed
StoredKeyFresh ==
    Started => \A k \in DOMAIN used_keys : used_keys[k] # state.key

\* a step hands the stored generator state to the sampler and stores the
\* advanced one the sampler returned
KeyAdvanced ==
    StepTaken =>
        /\ sampler_call'.key = state.key
        /\ state'.key # state.key
        /\ \E sr \in SamplerResults(state.key, Constraint(state), state.sampler_state) :
              state'.key = sr.key

\* C11: the generator state is threaded linearly: over the initialisation
\* (batch draw, sampler-state initialisation) and the sampler call of every
\* step no generator state is consumed by two uses, and the state stored after
\* a step is the advanced state the sampler returned.
C11_KeyThreaded == [](KeysUsedOnce /\ StoredKeyFresh) /\ [][KeyAdvanced]_vars

\* two live points drawn, the sampler state initialised and three steps taken
C11_Witness ==
    /\ Started
    /\ args.num_live_points = 2
    /\ state.i = 3
    /\ Len(used_keys) = 9

\* C12: the wrapped likelihood coerces every non-finite value of the user's
\* likelihood (NaN, +inf, -inf) to -inf, never raising on one, and returns a
\* finite value unchanged.
C12_NonFiniteCoerced ==
    (probe # None /\ engine.log_L_shape = <<>>) =>
        /\ ~probe.raised
        /\ probe.log_L.kind = "finite" => probe.out = probe.log_L
        /\ probe.log_L.kind # "finite" => probe.out = NegInf

\* __init__ was given a likelihood whose value is not a scalar
NonScalarLikelihood == engine # None /\ engine.log_L_shape # <<>>

\* C13: a likelihood whose output is not a scalar is rejected as a fatal
\* error when the engine is constructed, before any run call is made.
C13_RejectedAtConstruction == NonScalarLikelihood => pc = "rejected"

\* C13 (amended): a likelihood whose output is not a scalar is accepted by the
\* constructor, which does not call it, and is rejected as a fatal error by
\* the first call of the wrapped likelihood: a run call raises in
\* initial_state, before any state exists and before any step of the loop.
C13_RejectedAtFirstCall ==
    (NonScalarLikelihood /\ engine.sampler_name \in {"slice", "multi_ellipsoid"}) =>
        /\ pc \in {"constructed", "aborted"}
        /\ args # None => pc = "aborted"
        /\ state = None
        /\ probe # None => probe.raised

\* a run call on an engine constructed with a vector-valued likelihood raised
C13_Witness ==
    /\ pc = "aborted"
    /\ engine.sampler_name = "slice"
    /\ engine.log_L_shape = <<1>>
    /\ probe # None

\* C14: constructing the engine with a sampler name other than "slice" and
\* "multi_ellipsoid" raises at construction: no engine comes to exist, so that
\* nothing is evaluated with it and no run state is created.
C14_UnknownSamplerRejected ==
    (engine # None /\ engine.sampler_name \notin {"slice", "multi_ellipsoid"}) =>
        /\ pc = "rejected"
        /\ args = None
        /\ state = None
        /\ results = None
        /\ probe = None

C14_Witness ==
    /\ pc = "rejected"
    /\ engine.sampler_name = "unknown"
    /\ engine.log_L_shape = <<>>

\* the number of dead points is the number of completed steps
CountersAgree == Started => state.num_dead = state.i

\* a step counts once in i and in num_dead, calls the sampler once, replaces
\* one live point and, with the bookkeeping on, writes the dead point's entry
\* num_dead of the buffers and no other entry
OneDeadOneReplacement ==
    StepTaken =>
        /\ state'.i = state.i + 1
        /\ state'.num_dead = state.num_dead + 1
        /\ state'.sampler_state.calls = state.sampler_state.calls + 1
        /\ Cardinality({k \in DOMAIN state.log_L_live :
                           state'.log_L_live[k] # state.log_L_live[k]}) = 1
        /\ Bookkeeping =>
              /\ state'.log_L_dead[state.num_dead] = log_L_min_of(state)
              /\ \A k \in DOMAIN state.log_L_dead \ {state.num_dead} :
                    /\ state'.log_L_dead[k] = state.log_L_dead[k]
                    /\ state'.log_X[k] = state.log_X[k]
                    /\ state'.log_w[k] = state.log_w[k]
                    /\ state'.sampler_efficiency[k] = state.sampler_efficiency[k]
        /\ Collecting =>
              \A k \in DOMAIN state.log_L_dead \ {state.num_dead} :
                  state'.dead_points["theta"][k] = state.dead_points["theta"][k]

\* C15: every executed step records one dead point and installs one
\* replacement: i and num_dead both grow by exactly 1 per step, and
\* num_dead = i in every reachable state.
C15_CountersAgree == [](CountersAgree) /\ [][OneDeadOneReplacement]_vars

\* three steps of a run without bookkeeping
C15_Witness ==
    /\ Started
    /\ state.i = 3
    /\ state.num_dead = 3
    /\ state.sampler_state.calls = 3
    /\ args.only_marginalise

\* the threshold of a step's sampler call is the minimum of the live set the
\* step starts from, is the dead log-likelihood the step records, and is not
\* below the threshold of the call before
ThresholdHanded ==
    StepTaken =>
        /\ \A k \in DOMAIN state.log_L_live :
              sampler_call'.log_L_constraint <= state.log_L_live[k]
        /\ \E k \in DOMAIN state.log_L_live :
              sampler_call'.log_L_constraint = state.log_L_live[k]
        /\ Bookkeeping =>
              state'.log_L_dead[state.num_dead] = sampler_call'.log_L_constraint
        /\ sampler_call # None =>
              sampler_call'.log_L_constraint >= sampler_call.log_L_constraint

\* C16: in every step the threshold handed to the sampler is the minimum
\* log-likelihood of the live set as the previous step's replacement left it,
\* and is the value recorded as that step's dead log-likelihood; thresholds
\* are non-decreasing from step to step.
C16_ThresholdHanded == [][ThresholdHanded]_vars

\* the threshold rose from the first call to the second
C16_Witness ==
    /\ Bookkeeping
    /\ state.i = 2
    /\ sampler_call.log_L_constraint = state.log_L_dead[1]
    /\ state.log_L_dead[0] < state.log_L_dead[1]

\* C17: whenever collect_samples is true the result record contains the
\* 'samples' field, and when it is false the result does not contain it.
C17_SamplesIffCollected ==
    pc = "returned" => (results.has_samples <=> args.collect_samples)

\* C17 (amended): the result record contains the 'samples' field exactly when
\* collect_samples is true and only_marginalise is false; with
\* only_marginalise true it has no 'samples' field whatever collect_samples is.
C17_SamplesIffKept ==
    pc = "returned" =>
        /\ results.has_samples <=> (args.collect_samples /\ ~args.only_marginalise)
        /\ results.has_samples => results.samples # None
        /\ ~results.has_samples => results.samples = None

\* a run asked to collect samples and to marginalise only returned no samples
C17_Witness ==
    /\ pc = "returned"
    /\ args.collect_samples
    /\ args.only_marginalise
    /\ ~results.has_samples

\* the arguments a with the two bookkeeping flags set in every way
FlagVariants(a) ==
    {[a EXCEPT !.collect_samples = c, !.only_marginalise = m] : c, m \in BOOLEAN}

\* the state st of a run with every buffer on, without the buffers that the
\* flags of a2 switch off
WithBuffersOf(st, a2) ==
    [st EXCEPT
        !.dead_points = IF ~a2.only_marginalise /\ a2.collect_samples THEN @ ELSE None,
        !.log_L_dead = IF a2.only_marginalise THEN None ELSE @,
        !.sampler_efficiency = IF a2.only_marginalise THEN None ELSE @,
        !.log_X = IF a2.only_marginalise THEN None ELSE @,
        !.log_w = IF a2.only_marginalise THEN None ELSE @]

\* the run has every buffer on
AllBuffers == Started /\ args.collect_samples /\ ~args.only_marginalise

\* the initial state under other flags is that of the run with every buffer
\* on, less the buffers switched off
SameInitialState ==
    (pc = "constructed" /\ pc' = "loop" /\ args'.collect_samples
       /\ ~args'.only_marginalise) =>
        \A a2 \in FlagVariants(args') :
            initial_state(PRNGKey(0), a2, state'.live_points_U)
                = WithBuffersOf(state', a2)

\* a step under other flags, given the same sampler result, hands the sampler
\* the same arguments and leaves the state of the run with every buffer on,
\* less the buffers switched off: the same dead point, live set, generator
\* state, tracker state, evaluation count, step count and halt decision
SameStep ==
    (StepTaken /\ AllBuffers) =>
        \A a2 \in FlagVariants(args) :
            /\ sampler_call_args(WithBuffersOf(state, a2)) = sampler_call'
            /\ i_min_of(WithBuffersOf(state, a2)) = i_min_of(state)
            /\ \A sr \in SamplerResults(state.key, Constraint(state),
                                        state.sampler_state) :
                  state' = body(state, args, sr) =>
                      body(WithBuffersOf(state, a2), a2, sr)
                          = WithBuffersOf(state', a2)

\* the evidence and the evaluation count of the result are the same under
\* other flags
SameEvidence ==
    (pc = "returned" /\ AllBuffers) =>
        \A a2 \in FlagVariants(args) :
            LET r2 == finalise_results(WithBuffersOf(state, a2), a2).fields
            IN  /\ r2.logZ = results.fields.logZ
                /\ r2.num_likelihood_evaluations
                      = results.fields.num_likelihood_evaluations
                /\ r2.efficiency = results.fields.efficiency

\* C18: the bookkeeping flags only switch buffers on or off: a run that
\* differs from another in collect_samples and only_marginalise alone (same
\* seed, same configuration, same sampler results) selects the same dead
\* point at every step, evolves the same live set, generator state, tracker
\* state and evaluation count, and halts after the same number of steps with
\* the same evidence.
C18_FlagsOnlySwitchBuffers ==
    /\ [][SameInitialState /\ SameStep]_vars
    /\ [](SameEvidence)

\* a run with every buffer on returned after two or more steps
C18_Witness ==
    /\ pc = "returned"
    /\ AllBuffers
    /\ state.i >= 2
    /\ state.num_likelihood_evaluations > args.num_live_points + state.i

\* the evaluation counts the sampler reported, as recorded per step in
\* sampler_efficiency, summed over the steps taken
ReportedEvaluations ==
    Sum([k \in 0 .. state.num_dead - 1 |-> state.sampler_efficiency[k]])

\* the running count is the initial batch plus the reported counts
EvaluationsCounted ==
    /\ (Started /\ state.i = 0) =>
          state.num_likelihood_evaluations = args.num_live_points
    /\ Bookkeeping =>
          state.num_likelihood_evaluations
              = args.num_live_points + ReportedEvaluations

\* a step adds the count its sampler call reported
EvaluationsAdded ==
    StepTaken =>
        \E sr \in SamplerResults(state.key, Constraint(state), state.sampler_state) :
            /\ state' = body(state, args, sr)
            /\ state'.num_likelihood_evaluations
                  = state.num_likelihood_evaluations + sr.num_likelihood_evaluations

\* the result reports the running count, and the efficiency
\* (num_dead + num_live_points) / count, which is at most 1
EfficiencyReported ==
    pc = "returned" =>
        /\ results.fields.num_likelihood_evaluations
              = state.num_likelihood_evaluations
        /\ results.fields.efficiency
              = <<state.num_dead + args.num_live_points,
                  results.fields.num_likelihood_evaluations>>
        /\ results.fields.efficiency[1] <= results.fields.efficiency[2]

\* C19: the likelihood-evaluation count of the result is num_live_points (the
\* initial batch) plus the sum of the counts the sampler reported over the
\* steps; the efficiency is (num_dead + num_live_points) over that total and,
\* every sampler call reporting one evaluation or more, is at most 1.
C19_EvaluationsCounted ==
    /\ [](EvaluationsCounted /\ EfficiencyReported)
    /\ [][EvaluationsAdded]_vars

\* a returned run whose sampler calls reported different counts
C19_Witness ==
    /\ pc = "returned"
    /\ Bookkeeping
    /\ state.num_dead = 2
    /\ state.sampler_efficiency[0] < state.sampler_efficiency[1]
    /\ results.fields.efficiency[1] < results.fields.efficiency[2]

\* the dead-point buffers and the samples of the result are keyed by the
\* tracked prior variables, theta alone; the live set holds every variable
OnlyTrackedKept ==
    /\ Started => DOMAIN state.live_points = PriorNames
    /\ Collecting =>
          /\ DOMAIN state.dead_points = {name \in PriorNames : tracked(name)}
          /\ "theta" \in DOMAIN state.dead_points
          /\ "_theta_low" \notin DOMAIN state.dead_points
          /\ "_theta_high" \notin DOMAIN state.dead_points
    /\ (pc = "returned" /\ results.has_samples) =>
          /\ DOMAIN results.samples = {name \in PriorNames : tracked(name)}
          /\ "theta" \in DOMAIN results.samples
          /\ "_theta_low" \notin DOMAIN results.samples
          /\ "_theta_high" \notin DOMAIN results.samples

\* C20: the samples kept in the result contain exactly the prior variables
\* whose tracked flag is true: untracked variables, the Delta nodes created to
\* wrap the constant hyperparameters of a prior among them, never appear in
\* the dead-point buffers or in the samples of the result.
C20_OnlyTrackedKept == [](OnlyTrackedKept)

\* a run returned samples, its live set holding the hyperparameter nodes too
C20_Witness ==
    /\ pc = "returned"
    /\ results.has_samples
    /\ state.num_dead >= 1
    /\ results.samples["theta"][0] = state.dead_points["theta"][0]
    /\ state.live_points["_theta_low"][0] = PriorLow

\* the forward map of the named prior has been applied
Applied(prior) == probe # None /\ probe.prior = prior

\* C21: DeltaPrior consumes zero uniform dimensions, and its forward map
\* returns its fixed value for every uniform input and every keyword context.
C21_DeltaConstant ==
    Applied("DeltaPrior") =>
        /\ probe.U_ndims = 0
        /\ probe.out = probe.value

\* the value 3 came back from a uniform input of 2/UMax in a context with two
\* parent outputs
C21_Witness ==
    /\ Applied("DeltaPrior")
    /\ probe.U = <<2>>
    /\ DOMAIN probe.kwargs = {"low", "high"}
    /\ probe.value = 3
    /\ probe.out = 3

\* C22: UniformPrior's forward map is low + U * (high - low): low = 0,
\* high = 10 and U = 0.5 give exactly 5.0, and with low <= high the output of
\* every U in [0, 1] lies in [low, high] and is non-decreasing in U.
C22_UniformForward ==
    Applied("UniformPrior") =>
        /\ probe.out[1] * probe.U[2]
              = (probe.low * probe.U[2] + probe.U[1] * (probe.high - probe.low))
                  * probe.out[2]
        /\ (probe.low = 0 /\ probe.high = 10 /\ FracEq(probe.U, <<1, 2>>)) =>
              FracEq(probe.out, <<5, 1>>)
        /\ probe.low <= probe.high =>
              /\ FracLeq(<<probe.low, 1>>, probe.out)
              /\ FracLeq(probe.out, <<probe.high, 1>>)
              /\ \A U2 \in UnitFractions :
                    FracLeq(probe.U, U2) =>
                        FracLeq(probe.out, uniform_forward(U2, probe.low, probe.high))

\* UniformPrior(low=0, high=10) at 0.5
C22_Witness ==
    /\ Applied("UniformPrior")
    /\ probe.low = 0
    /\ probe.high = 10
    /\ probe.U = <<1, 2>>
    /\ probe.out = <<10, 2>>

\* C23: the forward map of CategoricalPrior never produces a non-finite
\* output, a component of the uniform input being exactly 0 included: the
\* input is clamped away from 0 before the log-log Gumbel transform, so that
\* the Gumbel value of every input below 1 is finite, and the output is a
\* class index in [0, K) for K logits.
C23_CategoricalFinite ==
    Applied("CategoricalPrior") =>
        /\ \A k \in DOMAIN probe.U :
              probe.U[k] < UMax => probe.gumbel[k].kind = "finite"
        /\ DOMAIN probe.out = {0}
        /\ probe.out[0] \in DOMAIN probe.logits
        /\ \A k \in DOMAIN probe.logits :
              ~FloatLess(add_logit(probe.logits[probe.out[0]],
                                   probe.gumbel[probe.out[0]]),
                         add_logit(probe.logits[k], probe.gumbel[k]))

\* two classes, both uniform components exactly 0: the larger logit wins
C23_Witness ==
    /\ Applied("CategoricalPrior")
    /\ DOMAIN probe.logits = {0, 1}
    /\ probe.U[0] = 0
    /\ probe.U[1] = 0
    /\ probe.logits[0] < probe.logits[1]
    /\ probe.out[0] = 1

LiveAboveDead ==
    (Started /\ state.num_dead > 0) =>
        \A k \in DOMAIN state.log_L_live :
            /\ state.log_L_live[k] >= sampler_call.log_L_constraint
            /\ Bookkeeping =>
                  /\ state.log_L_dead[state.num_dead - 1]
                        = sampler_call.log_L_constraint
                  /\ \A j \in 0 .. state.num_dead - 1 :
                        state.log_L_live[k] >= state.log_L_dead[j]

\* a step eliminates the minimum of the live set and leaves in its slot a
\* log-likelihood strictly above it
ReplacementAbove ==
    StepTaken =>
        /\ sampler_call'.log_L_constraint = log_L_min_of(state)
        /\ state'.log_L_live[i_min_of(state)] > log_L_min_of(state)

\* C25: after every step every live log-likelihood is at least the
\* log-likelihood of the dead point recorded last, and of every dead point
\* recorded before it, and the slot the step replaced holds a log-likelihood
\* strictly greater than the one eliminated (the sampler returning a point
\* strictly above its constraint).
C25_LiveAboveDead == [](LiveAboveDead) /\ [][ReplacementAbove]_vars

\* two live points after three steps: both above the three recorded values
C25_Witness ==
    /\ Bookkeeping
    /\ args.num_live_points = 2
    /\ state.num_dead = 3
    /\ state.log_L_dead[2] = sampler_call.log_L_constraint
    /\ state.log_L_dead[0] < state.log_L_dead[2]
    /\ \A k \in 0 .. 1 : state.log_L_live[k] >= state.log_L_dead[2]

\* a step updates the tracker once, from the eliminated point, and leaves the
\* remaining volume unshared; the sampler is called with the volume the update
\* left; what is written to the replaced slot, and the generator state stored,
\* are a result of that call
TrackerThenSampler ==
    StepTaken =>
        /\ state'.tracked_expectations_state
              = TrackedUpdate(state.tracked_expectations_state,
                              Size(state.log_L_live), log_L_min_of(state))
        /\ state'.tracked_expectations_state.X > 0
        /\ sampler_call'.log_X = state'.tracked_expectations_state.X
        /\ sampler_call'.log_X < state.tracked_expectations_state.X
        /\ \E sr \in SamplerResults(sampler_call'.key,
                                    sampler_call'.log_L_constraint,
                                    state.sampler_state) :
              /\ state'.log_L_live[i_min_of(state)] = sr.log_L_new
              /\ state'.live_points_U[i_min_of(state)] = sr.u_new
              /\ state'.key = sr.key

\* no result exists while the loop runs; the evidence returned is the one the
\* last step left plus the remaining volume shared among the live points
LiveCorrectionAtReturn ==
    /\ pc = "loop" => results = None
    /\ pc = "returned" =>
          /\ state.done
          /\ results.fields.logZ
                = state.tracked_expectations_state.Z
                    + (state.tracked_expectations_state.X \div Size(state.log_L_live))
                        * SumExpL(state.log_L_live)

\* leaving the loop changes neither the state nor the tracker in it
StateKeptAtReturn == (pc = "loop" /\ pc' # "loop") => state' = state

\* C26: within a step the tracker update happens exactly once and before the
\* sampler is invoked, so that the sampler sees the already advanced
\* log-volume; the replacement is written only after the sampler has
\* returned, being a result of that call; update_from_live_points is applied
\* exactly once, after the last step and never between steps.
C26_StepOrder ==
    [](LiveCorrectionAtReturn) /\ [][TrackerThenSampler /\ StateKeptAtReturn]_vars

\* a returned run of two steps: the last sampler call saw the volume the
\* second update left, and the live points added evidence at the end
C26_Witness ==
    /\ pc = "returned"
    /\ state.num_dead = 2
    /\ sampler_call.log_X = state.tracked_expectations_state.X
    /\ sampler_call.log_X < Scale(args.num_live_points, args.max_samples)
    /\ results.fields.logZ > state.tracked_expectations_state.Z

\* with only_marginalise no bookkeeping buffer exists in the state of the run
NoBuffers ==
    (Started /\ args.only_marginalise) =>
        /\ state.dead_points = None
        /\ state.log_X = None
        /\ state.log_w = None
        /\ state.log_L_dead = None
        /\ state.sampler_efficiency = None

\* with only_marginalise the result carries no per-sample field: five are
\* None, 'samples' is not a field of the result
NoPerSampleFields ==
    (pc = "returned" /\ args.only_marginalise) =>
        /\ results.fields.n_per_sample = None
        /\ results.fields.log_p = None
        /\ results.fields.log_X = None
        /\ results.fields.log_L_samples = None
        /\ results.fields.sampler_efficiency = None
        /\ ~results.has_samples
        /\ results.samples = None

\* C27: with only_marginalise true no bookkeeping buffer (dead points, log_X,
\* log_w, log_L_dead, sampler_efficiency) is allocated by the initial state or
\* written by any step, and the per-sample fields of the result
\* (n_per_sample, log_p, log_X, log_L_samples, sampler_efficiency, samples)
\* are absent, whatever collect_samples is.
C27_NothingRecorded == NoBuffers /\ NoPerSampleFields

\* a returned run of two steps with only_marginalise and collect_samples both
\* set: nothing recorded, the counts still reported
C27_Witness ==
    /\ pc = "returned"
    /\ args.only_marginalise
    /\ args.collect_samples
    /\ state.num_dead = 2
    /\ state.dead_points = None
    /\ results.fields.log_L_samples = None
    /\ results.fields.num_samples = 2 + args.num_live_points

\* C28: in result assembly the live points are appended after the dead
\* points in ascending order of log-likelihood, so that the first
\* num_dead + N entries of the combined sample sequence are ordered by
\* non-decreasing log-likelihood.
C28_CombinedAscending ==
    (pc = "returned" /\ ~args.only_marginalise) =>
        LET nd == state.num_dead
            N == args.num_live_points
            ar == argsort(state.log_L_live)
            log_L_samples == results.fields.log_L_samples
        IN  /\ \A j \in 0 .. N - 2 :
                  state.log_L_live[ar[j]] <= state.log_L_live[ar[j + 1]]
            /\ \A j \in 0 .. N - 1 :
                  /\ nd + j \in DOMAIN log_L_samples
                  /\ log_L_samples[nd + j] = state.log_L_live[ar[j]]
            /\ \A k \in 0 .. nd + N - 2 :
                  /\ k + 1 \in DOMAIN log_L_samples
                  /\ log_L_samples[k] <= log_L_samples[k + 1]

====
